---- MODULE Spec2Model ----
(***************************************************************************)
(* Model of the Porcupine Windows launcher, launcher/main.c.               *)
(*                                                                         *)
(* wmain is a straight-line program.  Each action below is one step of it  *)
(* (a call into the platform together with the check that follows it), and *)
(* pc is wmain's position.  Wide strings are sequences of one-character    *)
(* strings, NUL being the terminating null character.  The block that      *)
(* launcherpath points to is a record of its size in cells and of its      *)
(* cells up to the last one that is not NUL: the cells after those hold     *)
(* NUL, as calloc left them or as a later store made them.  A block of     *)
(* size 0 stands for the null pointer.                                     *)
(*                                                                         *)
(* The platform is the environment: the outcome of calloc, the path and    *)
(* the truncation behaviour of GetModuleFileNameW, the outcome of          *)
(* LoadLibraryW and GetProcAddress and the value Py_Main returns are       *)
(* chosen with \E where the call is made.  Where the C code has undefined  *)
(* behaviour (a store through a null pointer, a store past the end of the  *)
(* heap block) the model chooses among the outcomes listed in              *)
(* NullWriteOutcomes and OverflowOutcomes and records the event in ub.     *)
(***************************************************************************)
EXTENDS Integers, Sequences, FiniteSets, TLC

VARIABLES
    pc,            \* position of wmain
    argv,          \* the strings argv[0..argc-1]; argv[argc] is the null pointer
    launcherpath,  \* the block of the calloc'ed path buffer, NullBlock for a null pointer
    ownPath,       \* the full path of the running executable, as the platform knows it
    gmfnRet,       \* what GetModuleFileNameW returned, <<>> before the call
    pydll,         \* HMODULE of python3.dll
    Py_Main,       \* address of Py_Main
    myargv,        \* the cells of the calloc'ed argument vector, <<>> for a null pointer
    pyMainCall,    \* <<>> or <<[argc, argv]>>: the call into Py_Main
    pyMainRet,     \* <<>> or <<v>>: the value Py_Main returned
    r,             \* wmain's local r
    boxes,         \* the message boxes shown so far, in order
    fatalMsg,      \* the argument of the pending fatal_error call
    exitStatus,    \* <<>> while running, <<s>> once the process ended with status s
    ub             \* the undefined behaviour that has happened in this run

vars == <<pc, argv, launcherpath, ownPath, gmfnRet, pydll, Py_Main, myargv,
          pyMainCall, pyMainRet, r, boxes, fatalMsg, exitStatus, ub>>

----------------------------------------------------------------------------
(* Program constants *)

MAX_PATH == 260

\* the third argument of GetModuleFileNameW
NSize == MAX_PATH - 1

\* the number of cells of myargv
MyArgvCells == 3

\* the count passed to Py_Main
PyMainArgc == 2

\* the count passed to swprintf
SwprintfCount == 40

NUL == "NUL"
BS == "\\"

\* L"\\launch.pyw"
Suffix == <<BS, "l", "a", "u", "n", "c", "h", ".", "p", "y", "w">>

NoHandle == "NULL"

----------------------------------------------------------------------------
(* Bounds of the environment *)

\* most pieces of the tail of an own path
MaxTail == 3

\* the long own paths differ in length by up to MaxSlack characters
MaxSlack == 9

\* most arguments after argv[0]
MaxExtraArgs == 2

\* Py_Main returns a 32-bit int
IntMax == 2^30 + (2^30 - 1)
IntMin == -IntMax - 1

PyMainResults == {IntMin, -1, 0, 1, IntMax}

\* the pieces a tail is made of: a separator, a separator and a character, a character
TailPieces == {<<BS>>, <<BS, "a">>, <<"a">>}

RECURSIVE Flatten(_)
Flatten(pieces) ==
    IF pieces = <<>> THEN <<>> ELSE Head(pieces) \o Flatten(Tail(pieces))

Tails == {Flatten(ps) : ps \in UNION {[1..n -> TailPieces] : n \in 1..MaxTail}}

\* a short path has no padding; a long one is padded so that its tail
\* straddles the end of the cells GetModuleFileNameW may fill
PadLens == {0} \cup {MAX_PATH - 4 - k : k \in 0..MaxSlack}

Pad(n) == [i \in 1..n |-> "a"]

\* C:\Porcupine\Python\Porcupine.exe
ExamplePath ==
    <<"C", ":", BS, "P", "o", "r", "c", "u", "p", "i", "n", "e",
      BS, "P", "y", "t", "h", "o", "n",
      BS, "P", "o", "r", "c", "u", "p", "i", "n", "e", ".", "e", "x", "e">>

\* C:\aaa...a\Porcupine\Python\Porcupine.exe, where ...\Python alone fills the
\* NSize - 1 characters that GetModuleFileNameW stores of a path it truncates
LongExamplePath ==
    SubSeq(ExamplePath, 1, 3) \o Pad(NSize - 1 - 20) \o <<BS>> \o
    SubSeq(ExamplePath, 4, Len(ExamplePath))

OwnPaths ==
    {Pad(n) \o t : n \in PadLens, t \in Tails} \cup {ExamplePath, LongExamplePath}

ExtraArgs == {"--flag", "x"}

\* argc = 0 (no argv[0]) or the program name followed by up to MaxExtraArgs arguments
ArgLists ==
    {<<>>} \cup
    {<<"Porcupine.exe">> \o rest :
        rest \in UNION {[1..n -> ExtraArgs] : n \in 0..MaxExtraArgs}}

----------------------------------------------------------------------------
(* Pointers and strings *)

NullPtr == [kind |-> "null", s |-> ""]
StrPtr(s) == [kind |-> "str", s |-> s]
LauncherpathPtr == [kind |-> "launcherpath", s |-> ""]

\* argv[i], 0-based; argv[argc] is null
ArgvAt(i) == IF i < Len(argv) THEN StrPtr(argv[i + 1]) ELSE NullPtr

\* the text of a wide string literal
Lit(s) == <<s>>

\* what calloc returns: null, or a block of zeroed cells
NullBlock == [size |-> 0, cells |-> <<>>]
ZeroedPath == [size |-> MAX_PATH, cells |-> <<>>]
ZeroedArgv == [i \in 1..MyArgvCells |-> NullPtr]

\* the cell i of a block
CellAt(buf, i) == IF i <= Len(buf.cells) THEN buf.cells[i] ELSE NUL

\* cells without the NULs at their end: cut after the last cell that is not
\* NUL, which is the last of the cells that end a run of such cells
Trimmed(cells) ==
    LET ends == {i \in 1..Len(cells) :
                    cells[i] # NUL /\ (i = Len(cells) \/ cells[i + 1] = NUL)}
    IN  IF ends = {} THEN <<>>
        ELSE SubSeq(cells, 1, CHOOSE i \in ends : \A j \in ends : j <= i)

\* wcslen: the number of cells before the first NUL (the cell after
\* buf.cells when none of them is NUL)
WcsLen(buf) ==
    LET nuls == {i \in 1..Len(buf.cells) : buf.cells[i] = NUL}
    IN  IF nuls = {} THEN Len(buf.cells)
        ELSE (CHOOSE i \in nuls : \A j \in nuls : i <= j) - 1

\* the string a buffer holds
CStr(buf) == SubSeq(buf.cells, 1, WcsLen(buf))

\* wcsrchr: the index of the last c in the string, 0 for a null result
Wcsrchr(buf, c) ==
    LET found == {i \in 1..WcsLen(buf) : buf.cells[i] = c}
    IN  IF found = {} THEN 0 ELSE CHOOSE i \in found : \A j \in found : j <= i

\* the cells wcscat needs: the string, the appended string and the NUL
WcscatNeeds(dst, src) == WcsLen(dst) + Len(src) + 1

\* wcscat: src and a NUL are stored from the first NUL of dst on; cells past
\* dst.size are cells past the end of the block
Wcscat(dst, src) ==
    LET n == WcsLen(dst)
        m == WcscatNeeds(dst, src)
        top == IF m > Len(dst.cells) THEN m ELSE Len(dst.cells)
    IN  [dst EXCEPT !.cells = Trimmed(
            [i \in 1..top |->
                IF i <= n THEN dst.cells[i]
                ELSE IF i <= n + Len(src) THEN src[i - n]
                ELSE IF i = m THEN NUL
                ELSE CellAt(dst, i)])]

\* what GetModuleFileNameW(NULL, buf, nSize) leaves in buf for the path p:
\* the path and a NUL when they fit in nSize cells; otherwise the first
\* nSize - 1 characters and a NUL, or (older platforms) the first nSize
\* characters and no NUL
ModuleFileNameCells(buf, p, nSize, terminates) ==
    LET copied == IF Len(p) < nSize THEN Len(p)
                  ELSE IF terminates THEN nSize - 1 ELSE nSize
        top == IF copied + 1 > Len(buf.cells) THEN copied + 1 ELSE Len(buf.cells)
    IN  [buf EXCEPT !.cells = Trimmed(
            [i \in 1..top |->
                IF i <= copied THEN p[i]
                ELSE IF i = copied + 1 /\ (Len(p) < nSize \/ terminates) THEN NUL
                ELSE CellAt(buf, i)])]

\* what GetModuleFileNameW returns for the path p
ModuleFileNameResult(p, nSize) == IF Len(p) < nSize THEN Len(p) ELSE nSize

\* the number of characters of %d applied to v
RECURSIVE Digits(_)
Digits(n) ==
    IF -10 < n /\ n < 10 THEN 1
    ELSE 1 + Digits(IF n < 0 THEN (n + 9) \div 10 ELSE n \div 10)
DecLen(v) == IF v < 0 THEN 1 + Digits(v) ELSE Digits(v)

\* L"Py_Main(%d, ...) returned %d": the characters other than the two %d
FormatFixedLen == 24

\* swprintf(msg, 40, ...) stores the text when it and its NUL fit in 40 cells
SwprintfFits(a, b) == FormatFixedLen + DecLen(a) + DecLen(b) + 1 <= SwprintfCount

Box(title, text) == [title |-> title, text |-> text]

ErrorTitle == "Porcupine cannot start"

\* MessageBoxW(NULL, myargv[i] ? myargv[i] : L"NULL", ...)
ArgText(p, path) ==
    IF p.kind = "null" THEN Lit("NULL")
    ELSE IF p.kind = "launcherpath" THEN CStr(path)
    ELSE Lit(p.s)

\* a store through a null pointer: the process dies of the access violation,
\* or the store does nothing and wmain goes on
NullWriteOutcomes == {"crash", "continue"}

\* a store past the end of a heap block: the process dies, or the cells
\* after the block are overwritten and wmain goes on
OverflowOutcomes == {"crash", "continue"}

----------------------------------------------------------------------------
Init ==
    /\ pc = "calloc_launcherpath"
    /\ argv \in ArgLists
    /\ launcherpath = NullBlock
    /\ ownPath = <<>>
    /\ gmfnRet = <<>>
    /\ pydll = "unset"
    /\ Py_Main = "unset"
    /\ myargv = <<>>
    /\ pyMainCall = <<>>
    /\ pyMainRet = <<>>
    /\ r = 0
    /\ boxes = <<>>
    /\ fatalMsg = ""
    /\ exitStatus = <<>>
    /\ ub = {}

\* fatal_error(msg) is entered
CallFatalError(msg) ==
    /\ pc' = "fatal_error"
    /\ fatalMsg' = msg

\* line 10 left out: fatal_error goes to exit(1) without a message box
FatalErrorBoxSkipped ==
    /\ pc = "fatal_error"
    /\ pc' = "fatal_error_exit"
    /\ UNCHANGED <<argv, launcherpath, ownPath, gmfnRet, pydll, Py_Main, myargv,
                   pyMainCall, pyMainRet, r, boxes, fatalMsg, exitStatus, ub>>

\* line 10: MessageBoxW(NULL, msg, L"Porcupine cannot start", MB_OK | MB_ICONERROR)
FatalErrorBox ==
    /\ pc = "fatal_error"
    /\ boxes' = Append(boxes, Box(ErrorTitle, Lit(fatalMsg)))
    /\ pc' = "fatal_error_exit"
    /\ UNCHANGED <<argv, launcherpath, ownPath, gmfnRet, pydll, Py_Main, myargv,
                   pyMainCall, pyMainRet, r, fatalMsg, exitStatus, ub>>

\* line 11: exit(1)
FatalErrorExit ==
    /\ pc = "fatal_error_exit"
    /\ exitStatus' = <<1>>
    /\ pc' = "exited"
    /\ UNCHANGED <<argv, launcherpath, ownPath, gmfnRet, pydll, Py_Main, myargv,
                   pyMainCall, pyMainRet, r, boxes, fatalMsg, ub>>

\* lines 18-23: launcherpath = calloc(...); if (!launcherpath) fatal_error
CallocLauncherpath ==
    /\ pc = "calloc_launcherpath"
    /\ \E ok \in BOOLEAN :
        /\ launcherpath' = IF ok THEN ZeroedPath ELSE NullBlock
        /\ IF launcherpath' = NullBlock
           THEN /\ boxes' = boxes \o <<Box("asd1", Lit("asd 1")), Box("asd2", Lit("asd 2"))>>
                /\ CallFatalError("allocating memory failed")
           ELSE /\ boxes' = boxes \o <<Box("asd1", Lit("asd 1")), Box("asd2", Lit("asd 2")),
                                       Box("asd3", Lit("asd 3"))>>
                /\ pc' = "GetModuleFileNameW"
                /\ UNCHANGED fatalMsg
    /\ UNCHANGED <<argv, ownPath, gmfnRet, pydll, Py_Main, myargv,
                   pyMainCall, pyMainRet, r, exitStatus, ub>>

\* the check of line 25
ModuleFileNameFailed(ret) == ret <= 0

\* lines 25-27: GetModuleFileNameW(NULL, launcherpath, MAX_PATH-1) <= 0
ResolveOwnPath ==
    /\ pc = "GetModuleFileNameW"
    /\ \/ \* the platform cannot report the path
          /\ gmfnRet' = <<0>>
          /\ UNCHANGED <<launcherpath, ownPath>>
       \/ \E p \in OwnPaths :
          \E terminates \in (IF Len(p) < NSize THEN {TRUE} ELSE BOOLEAN) :
            /\ ownPath' = p
            /\ launcherpath' = ModuleFileNameCells(launcherpath, p, NSize, terminates)
            /\ gmfnRet' = <<ModuleFileNameResult(p, NSize)>>
    /\ IF ModuleFileNameFailed(gmfnRet'[1])
       THEN /\ CallFatalError("GetModuleFileNameW(NULL, ...) failed")
            /\ UNCHANGED boxes
       ELSE /\ boxes' = Append(boxes, Box("adsd4", Lit("asd 4")))
            /\ pc' = "truncate_1"
            /\ UNCHANGED fatalMsg
    /\ UNCHANGED <<argv, pydll, Py_Main, myargv, pyMainCall, pyMainRet, r,
                   exitStatus, ub>>

\* *wcsrchr(launcherpath, L'\\') = L'\0' when wcsrchr found the character at p
TruncatedAt(buf, p) ==
    [buf EXCEPT !.cells = Trimmed([buf.cells EXCEPT ![p] = NUL])]

\* lines 30-31: MessageBoxW(NULL, launcherpath, L"asd5", MB_OK);
\* *wcsrchr(launcherpath, L'\\') = L'\0';
Truncate1 ==
    /\ pc = "truncate_1"
    /\ boxes' = Append(boxes, Box("asd5", CStr(launcherpath)))
    /\ LET p == Wcsrchr(launcherpath, BS) IN
        IF p # 0
        THEN /\ launcherpath' = TruncatedAt(launcherpath, p)
             /\ pc' = "truncate_2"
             /\ UNCHANGED ub
        ELSE \E outcome \in NullWriteOutcomes :
             /\ ub' = ub \cup {"null write: first *wcsrchr"}
             /\ pc' = IF outcome = "crash" THEN "crashed" ELSE "truncate_2"
             /\ UNCHANGED launcherpath
    /\ UNCHANGED <<argv, ownPath, gmfnRet, pydll, Py_Main, myargv,
                   pyMainCall, pyMainRet, r, fatalMsg, exitStatus>>

\* lines 32-33: MessageBoxW(NULL, launcherpath, L"asd6", MB_OK);
\* *wcsrchr(launcherpath, L'\\') = L'\0';
Truncate2 ==
    /\ pc = "truncate_2"
    /\ boxes' = Append(boxes, Box("asd6", CStr(launcherpath)))
    /\ LET p == Wcsrchr(launcherpath, BS) IN
        IF p # 0
        THEN /\ launcherpath' = TruncatedAt(launcherpath, p)
             /\ pc' = "wcscat"
             /\ UNCHANGED ub
        ELSE \E outcome \in NullWriteOutcomes :
             /\ ub' = ub \cup {"null write: second *wcsrchr"}
             /\ pc' = IF outcome = "crash" THEN "crashed" ELSE "wcscat"
             /\ UNCHANGED launcherpath
    /\ UNCHANGED <<argv, ownPath, gmfnRet, pydll, Py_Main, myargv,
                   pyMainCall, pyMainRet, r, fatalMsg, exitStatus>>

\* lines 34-36: wcscat(launcherpath, L"\\launch.pyw")
AppendScriptName ==
    /\ pc = "wcscat"
    /\ IF WcscatNeeds(launcherpath, Suffix) <= launcherpath.size
       THEN /\ launcherpath' = Wcscat(launcherpath, Suffix)
            /\ boxes' = boxes \o <<Box("asd7", CStr(launcherpath)),
                                   Box("asd8", CStr(launcherpath'))>>
            /\ pc' = "LoadLibraryW"
            /\ UNCHANGED ub
       ELSE \E outcome \in OverflowOutcomes :
            /\ ub' = ub \cup {"overflow: wcscat"}
            /\ IF outcome = "crash"
               THEN /\ pc' = "crashed"
                    /\ boxes' = Append(boxes, Box("asd7", CStr(launcherpath)))
                    /\ UNCHANGED launcherpath
               ELSE /\ launcherpath' = Wcscat(launcherpath, Suffix)
                    /\ boxes' = boxes \o <<Box("asd7", CStr(launcherpath)),
                                           Box("asd8", CStr(launcherpath'))>>
                    /\ pc' = "LoadLibraryW"
    /\ UNCHANGED <<argv, ownPath, gmfnRet, pydll, Py_Main, myargv,
                   pyMainCall, pyMainRet, r, fatalMsg, exitStatus>>

\* the check of line 40 left out
LoadFailedNever(h) == FALSE

\* the check of line 40
LoadFailed(h) == h = NoHandle

\* lines 38-42: pydll = LoadLibraryW(L"python3.dll"); if (!pydll) fatal_error
LoadLibrary ==
    /\ pc = "LoadLibraryW"
    /\ \E h \in {NoHandle, "python3.dll"} :
        /\ pydll' = h
        /\ IF LoadFailed(h)
           THEN /\ boxes' = Append(boxes, Box("asd9", Lit("asd 9")))
                /\ CallFatalError("Can't load python3.dll")
           ELSE /\ boxes' = boxes \o <<Box("asd9", Lit("asd 9")),
                                       Box("asd10", Lit("asd 10"))>>
                /\ pc' = "GetProcAddress"
                /\ UNCHANGED fatalMsg
    /\ UNCHANGED <<argv, launcherpath, ownPath, gmfnRet, Py_Main, myargv,
                   pyMainCall, pyMainRet, r, exitStatus, ub>>

\* GetProcAddress(module, "Py_Main"): null for a null module
ProcAddresses(module) ==
    IF module = NoHandle THEN {NoHandle} ELSE {NoHandle, "Py_Main"}

\* the check of line 46
LookupFailed(f) == f = NoHandle

\* lines 44-47: Py_Main = GetProcAddress(pydll, "Py_Main"); if (!Py_Main) fatal_error
ResolveEntrySymbol ==
    /\ pc = "GetProcAddress"
    /\ \E f \in ProcAddresses(pydll) :
        /\ Py_Main' = f
        /\ boxes' = Append(boxes, Box("asd11", Lit("asd 11")))
        /\ IF LookupFailed(f)
           THEN CallFatalError("Can't find Py_Main() in python3.dll")
           ELSE /\ pc' = "build_myargv"
                /\ UNCHANGED fatalMsg
    /\ UNCHANGED <<argv, launcherpath, ownPath, gmfnRet, pydll, myargv,
                   pyMainCall, pyMainRet, r, exitStatus, ub>>

\* lines 51-52: the cells of myargv after the two stores
FilledArgv(cells) ==
    [cells EXCEPT ![1] = ArgvAt(0), ![2] = LauncherpathPtr]

\* lines 53-54: one box per cell of myargv
ArgumentBoxes(cells) ==
    [i \in 1..MyArgvCells |-> Box("argument", ArgText(cells[i], launcherpath))]

\* lines 49-54: myargv = calloc(...); the two stores; the loop of boxes.
\* The result of calloc is not tested: when it is null the stores of lines
\* 51-52 and the loads of line 54 go through a null pointer.
BuildArgumentVector ==
    /\ pc = "build_myargv"
    /\ \E ok \in BOOLEAN :
        IF ok
        THEN /\ myargv' = FilledArgv(ZeroedArgv)
             /\ boxes' = boxes \o <<Box("asd12", Lit("asd 12"))>> \o ArgumentBoxes(myargv')
             /\ pc' = "call_Py_Main"
             /\ UNCHANGED ub
        ELSE \E outcome \in NullWriteOutcomes :
             /\ myargv' = <<>>
             /\ ub' = ub \cup {"null write: myargv[0]"}
             /\ IF outcome = "crash"
                THEN /\ boxes' = Append(boxes, Box("asd12", Lit("asd 12")))
                     /\ pc' = "crashed"
                ELSE /\ boxes' = boxes \o <<Box("asd12", Lit("asd 12"))>> \o
                                  [i \in 1..MyArgvCells |->
                                      Box("argument", Lit("indeterminate"))]
                     /\ pc' = "call_Py_Main"
    /\ UNCHANGED <<argv, launcherpath, ownPath, gmfnRet, pydll, Py_Main,
                   pyMainCall, pyMainRet, r, fatalMsg, exitStatus>>

\* the strings a vector of pointers addresses, null cells staying null
Pointees(cells) ==
    [i \in 1..Len(cells) |->
        IF cells[i].kind = "launcherpath"
        THEN [kind |-> "wstr", s |-> CStr(launcherpath)]
        ELSE cells[i]]

\* lines 57-58: Py_Main(2, myargv) is entered
CallPyMain ==
    /\ pc = "call_Py_Main"
    /\ boxes' = Append(boxes, Box("main START", Lit("calling main")))
    /\ pyMainCall' = <<[argc |-> PyMainArgc, argv |-> Pointees(myargv)]>>
    /\ pc' = "in_Py_Main"
    /\ UNCHANGED <<argv, launcherpath, ownPath, gmfnRet, pydll, Py_Main, myargv,
                   pyMainRet, r, fatalMsg, exitStatus, ub>>

\* line 58: Py_Main returns and its value is stored in r
PyMainReturns ==
    /\ pc = "in_Py_Main"
    /\ \E v \in PyMainResults :
        /\ pyMainRet' = <<v>>
        /\ r' = v
    /\ pc' = "report"
    /\ UNCHANGED <<argv, launcherpath, ownPath, gmfnRet, pydll, Py_Main, myargv,
                   pyMainCall, boxes, fatalMsg, exitStatus, ub>>

\* line 60: the text swprintf leaves in msg
ReportText(v) ==
    IF SwprintfFits(PyMainArgc, v)
    THEN <<"Py_Main(", PyMainArgc, ", ...) returned ", v>>
    ELSE <<"indeterminate">>

\* the value of line 62 cut to its low byte
ReturnValueLowByte(v) == v % 256

\* line 62: the value wmain returns
ReturnValue(v) == v

\* lines 59-62: the report box, then return r
ReportAndReturn ==
    /\ pc = "report"
    /\ boxes' = Append(boxes, Box("main DONE", ReportText(r)))
    /\ exitStatus' = <<ReturnValue(r)>>
    /\ pc' = "returned"
    /\ UNCHANGED <<argv, launcherpath, ownPath, gmfnRet, pydll, Py_Main, myargv,
                   pyMainCall, pyMainRet, r, fatalMsg, ub>>

Next ==
    \/ CallocLauncherpath
    \/ FatalErrorBox
    \/ FatalErrorExit
    \/ ResolveOwnPath
    \/ Truncate1
    \/ Truncate2
    \/ AppendScriptName
    \/ LoadLibrary
    \/ ResolveEntrySymbol
    \/ BuildArgumentVector
    \/ CallPyMain
    \/ PyMainReturns
    \/ ReportAndReturn

Spec == Init /\ [][Next]_vars

----------------------------------------------------------------------------
(* Vocabulary of the properties *)

\* the positions of the separators of a path
Separators(p) == {i \in 1..Len(p) : p[i] = BS}

SepCount(p) == Cardinality(Separators(p))

Largest(S) == CHOOSE i \in S : \A j \in S : j <= i

\* the part of p before its second-to-last separator, followed by \launch.pyw
ExpectedScriptPath(p) ==
    LET last == Largest(Separators(p))
        secondToLast == Largest(Separators(p) \ {last})
    IN  SubSeq(p, 1, secondToLast - 1) \o Suffix

Shown(title) == \E i \in 1..Len(boxes) : boxes[i].title = title

\* the most recent box is fatal_error's box with the message msg
LastBoxIsError(msg) ==
    /\ boxes # <<>>
    /\ boxes[Len(boxes)].title = ErrorTitle
    /\ boxes[Len(boxes)].text = Lit(msg)

\* wcscat has returned: the script path is derived
ScriptPathDerived == Shown("asd8")

InFatalError == pc \in {"fatal_error", "fatal_error_exit", "exited"}

Terminated == pc \in {"exited", "returned", "crashed"}

NullWrites ==
    {"null write: first *wcsrchr", "null write: second *wcsrchr", "null write: myargv[0]"}

\* the message fatal_error is given for each failure the platform reports
FailureMessage ==
    IF gmfnRet = <<0>> THEN "GetModuleFileNameW(NULL, ...) failed"
    ELSE IF pydll = NoHandle THEN "Can't load python3.dll"
    ELSE "Can't find Py_Main() in python3.dll"

\* own-path resolution, the library load or the symbol lookup has failed
StepFailed == gmfnRet = <<0>> \/ pydll = NoHandle \/ Py_Main = NoHandle

----------------------------------------------------------------------------
(* The claims *)

\* C1: for every own path with at least two separators, in a run without
\* undefined behaviour, the script path wmain has derived is the part of the
\* own path before its second-to-last separator followed by \launch.pyw.
C1_ScriptPathFromOwnPath ==
    (ScriptPathDerived /\ ub = {} /\ SepCount(ownPath) >= 2)
        => CStr(launcherpath) = ExpectedScriptPath(ownPath)

\* C2: for every original argument list a0..an, in a run without undefined
\* behaviour, Py_Main is called with the count n+2 and the vector a0, the
\* script path, a1..an in their order, null.
C2_ArgumentsPassedThrough ==
    (pyMainCall # <<>> /\ ub = {} /\ Len(argv) >= 1) =>
        /\ pyMainCall[1].argc = Len(argv) + 1
        /\ pyMainCall[1].argv =
              <<StrPtr(argv[1]), [kind |-> "wstr", s |-> CStr(launcherpath)]>> \o
              [i \in 1..(Len(argv) - 1) |-> StrPtr(argv[i + 1])] \o
              <<NullPtr>>

\* C3: once wmain has returned, the exit status is the value Py_Main returned.
C3_ExitStatusIsPyMainResult ==
    pc = "returned" => exitStatus = pyMainRet

C3_Witness ==
    /\ pc = "returned"
    /\ pyMainRet = <<IntMin>>
    /\ exitStatus = <<IntMin>>

\* C4: when LoadLibraryW has returned null, Py_Main is neither looked up nor
\* called, wmain is in fatal_error, and the process exits with status 1.
C4_NoEntryAfterLoadFailure ==
    pydll = NoHandle =>
        /\ Py_Main = "unset"
        /\ pyMainCall = <<>>
        /\ InFatalError
        /\ (Terminated => exitStatus = <<1>>)

C4_Witness ==
    /\ pydll = NoHandle
    /\ pc = "exited"
    /\ exitStatus = <<1>>

\* C5: when own-path resolution, the library load or the symbol lookup has
\* failed, wmain is in fatal_error and Py_Main is not called; and the process
\* ends only after the box naming the failed step has been shown, with
\* status 1.
C5_FailureShownThenExit ==
    /\ [](StepFailed => (InFatalError /\ pyMainCall = <<>>))
    /\ [][(StepFailed /\ ~Terminated /\ Terminated') =>
            (/\ LastBoxIsError(FailureMessage)
             /\ pc' = "exited"
             /\ exitStatus' = <<1>>
             /\ pyMainCall' = <<>>)]_vars

C5_Witness ==
    /\ Py_Main = NoHandle
    /\ pc = "exited"
    /\ LastBoxIsError("Can't find Py_Main() in python3.dll")
    /\ exitStatus = <<1>>

\* C6: when the own path stored in the buffer has fewer than two separators,
\* the derivation ends in fatal_error (status 1) and nothing is stored through
\* the null result of wcsrchr.
C6_MalformedPathIsFatal ==
    (/\ ownPath # <<>>
     /\ Len(ownPath) < NSize
     /\ SepCount(ownPath) < 2
     /\ pc \notin {"truncate_1", "truncate_2"})
        => /\ InFatalError
           /\ ub \cap NullWrites = {}
           /\ (Terminated => exitStatus = <<1>>)

\* C7: when GetModuleFileNameW has returned a length that is not positive or
\* is at least the buffer length passed to it, wmain is in fatal_error and
\* the process exits with status 1.
C7_TruncatedOwnPathIsFatal ==
    (gmfnRet # <<>> /\ (gmfnRet[1] <= 0 \/ gmfnRet[1] >= NSize))
        => /\ InFatalError
           /\ (Terminated => exitStatus = <<1>>)

\* C8: when either calloc has returned null, wmain is in fatal_error, nothing
\* is stored through the null pointer and it is not passed to Py_Main.
C8_AllocationFailureIsFatal ==
    /\ (pc # "calloc_launcherpath" /\ launcherpath = NullBlock) => InFatalError
    /\ "null write: myargv[0]" \notin ub
    /\ (pyMainCall # <<>> => pyMainCall[1].argv # <<>>)

\* C9: for every own path of at most MAX_PATH-2 characters with at least two
\* separators, wcscat stores nothing past the MAX_PATH cells of the buffer.
C9_AppendFitsBuffer ==
    (ownPath # <<>> /\ Len(ownPath) <= MAX_PATH - 2 /\ SepCount(ownPath) >= 2)
        => /\ "overflow: wcscat" \notin ub
           /\ WcsLen(launcherpath) + 1 <= MAX_PATH

\* C10: whenever Py_Main is called, in a run without undefined behaviour,
\* the cells of the vector below the count are non-null, the cell at the
\* count is null and lies inside the vector; for every argument count,
\* zero included.
C10_CountMatchesVector ==
    (pyMainCall # <<>> /\ ub = {}) =>
        LET call == pyMainCall[1] IN
        /\ call.argc + 1 <= Len(call.argv)
        /\ \A i \in 1..call.argc : call.argv[i].kind # "null"
        /\ call.argv[call.argc + 1].kind = "null"

====
